---- MODULE Spec2Model ----
(***************************************************************************)
(* Model of gsheet_read.py: one run of main() enumerates the sheets of a   *)
(* spreadsheet and, for each, fetches its rows, compares them with the     *)
(* snapshot stored in OUTPUT_DIR, and writes a new snapshot and a numbered *)
(* change file when some fetched row is absent from the snapshot.          *)
(*                                                                         *)
(* File names and sheet titles are sequences of one-character strings, so  *)
(* that str.startswith and the f-strings are computed character by         *)
(* character.  File contents are sequences of JSON tokens.  Each call of   *)
(* open()/json.dump()/json.load() is one atomic step.                      *)
(***************************************************************************)
EXTENDS Integers, Sequences, FiniteSets, TLC

(* ------------------------------ bounds -------------------------------- *)
\* most rows one fetch returns
MaxRows == 2
\* most calls of process_sheet, over all invocations of main()
MaxCycles == 2
\* the same on the one-sheet spreadsheet (SpecDel only)
MaxCyclesDel == 3
\* most manual deletions of a change file (SpecDel only)
MaxDeletes == 1

(* --------------------------- input universes -------------------------- *)
\* the rows a fetch can contain: different lengths, a shared first cell
RowValues == { <<"a">>, <<"a", "b">> }

SheetA == <<"A">>
SheetAB == <<"A", "_", "B">>
\* the sheet titles of the spreadsheet
SheetTitles == { SheetA, SheetAB }

SeqsUpTo(S, n) == UNION { [1..k -> S] : k \in 0..n }

\* the results values().get() can return under "values"
Fetches == SeqsUpTo(RowValues, MaxRows)

\* the title lists spreadsheets().get() can return: distinct titles
SheetLists == { s \in SeqsUpTo(SheetTitles, Cardinality(SheetTitles)) :
                  \A i, j \in 1..Len(s) : i # j => s[i] # s[j] }

(* ------------------------------ strings ------------------------------- *)
StartsWith(s, prefix) ==
    /\ Len(s) >= Len(prefix)
    /\ SubSeq(s, 1, Len(prefix)) = prefix

Digits == <<"0", "1", "2", "3", "4", "5", "6", "7", "8", "9">>

RECURSIVE str(_)
str(n) == IF n < 10 THEN << Digits[n + 1] >>
          ELSE str(n \div 10) \o << Digits[(n % 10) + 1] >>

\* f"{sheet_name}_latest.json"
latest_path(sheet_name) ==
    sheet_name \o <<"_", "l", "a", "t", "e", "s", "t", ".", "j", "s", "o", "n">>

\* f"changes_{sheet_name}_"
changes_prefix(sheet_name) ==
    <<"c", "h", "a", "n", "g", "e", "s", "_">> \o sheet_name \o <<"_">>

\* f"changes_{sheet_name}_{n}.json"
changes_path(sheet_name, n) ==
    changes_prefix(sheet_name) \o str(n) \o <<".", "j", "s", "o", "n">>

(* -------------------------------- JSON -------------------------------- *)
LB == <<"punct", "[">>
RB == <<"punct", "]">>
COMMA == <<"punct", ",">>
JStr(c) == <<"str", c>>

RECURSIVE JoinComma(_)
JoinComma(parts) ==
    IF Len(parts) = 0 THEN <<>>
    ELSE IF Len(parts) = 1 THEN parts[1]
    ELSE parts[1] \o <<COMMA>> \o JoinComma(Tail(parts))

dump_row(row) ==
    <<LB>> \o JoinComma([i \in 1..Len(row) |-> <<JStr(row[i])>>]) \o <<RB>>

\* json.dump of a list of lists of strings
json_dump(data) ==
    <<LB>> \o JoinComma([i \in 1..Len(data) |-> dump_row(data[i])]) \o <<RB>>

RECURSIVE ParseCells(_, _, _)
ParseCells(t, i, acc) ==
    IF t[i] = RB THEN [val |-> acc, next |-> i + 1]
    ELSE IF t[i] = COMMA THEN ParseCells(t, i + 1, acc)
    ELSE ParseCells(t, i + 1, Append(acc, t[i][2]))

RECURSIVE ParseRows(_, _, _)
ParseRows(t, i, acc) ==
    IF t[i] = RB THEN acc
    ELSE IF t[i] = COMMA THEN ParseRows(t, i + 1, acc)
    ELSE LET r == ParseCells(t, i + 1, <<>>)
         IN  ParseRows(t, r.next, Append(acc, r.val))

\* json.load of a text json_dump wrote
json_load(t) == ParseRows(t, 2, <<>>)

(* ------------------------- storage operations -------------------------- *)
\* os.path.exists / os.listdir over OUTPUT_DIR: files is a function from the
\* names of the files in OUTPUT_DIR to their contents
Exists(files, path) == path \in DOMAIN files

WriteFile(files, path, text) ==
    [p \in (DOMAIN files) \cup {path} |-> IF p = path THEN text ELSE files[p]]

read_previous_data(files, sheet_name) ==
    IF Exists(files, latest_path(sheet_name))
    THEN json_load(files[latest_path(sheet_name)])
    ELSE <<>>

write_new_data_append(files, sheet_name, data) ==
    WriteFile(files, latest_path(sheet_name),
              json_dump(read_previous_data(files, sheet_name) \o data))

write_new_data(files, sheet_name, data) ==
    WriteFile(files, latest_path(sheet_name), json_dump(data))

changes_count_first(files, sheet_name) == Cardinality({})

\* len([f for f in os.listdir(OUTPUT_DIR) if f.startswith(f"changes_{sheet_name}_")])
changes_count(files, sheet_name) ==
    Cardinality({ f \in DOMAIN files : StartsWith(f, changes_prefix(sheet_name)) })

changes_file_of(files, sheet_name) ==
    changes_path(sheet_name, changes_count(files, sheet_name) + 1)

save_changes(files, sheet_name, changes) ==
    WriteFile(files, changes_file_of(files, sheet_name), json_dump(changes))

(* --------------------------- change detection -------------------------- *)
RowEqFirstCell(row, other) ==
    /\ Len(row) > 0
    /\ Len(other) > 0
    /\ row[1] = other[1]

\* row == other, for Python lists of strings
RowEq(row, other) ==
    /\ Len(row) = Len(other)
    /\ \A i \in 1..Len(row) : row[i] = other[i]

\* row in data
RowIn(row, data) == \E j \in 1..Len(data) : RowEq(row, data[j])

\* [row for row in current_data if row not in previous_data]
new_rows(current, previous) ==
    SelectSeq(current, LAMBDA row : ~RowIn(row, previous))

has_changes_always(new) == TRUE

\* if new_data:
has_changes(new) == Len(new) > 0

stmt_after_swapped(p) ==
    CASE p = "read" -> "save"
      [] p = "save" -> "write"
      [] p = "write" -> "ret"

\* the order of the statements of process_sheet once new_data is non-empty
stmt_after(p) ==
    CASE p = "read" -> "write"
      [] p = "write" -> "save"
      [] p = "save" -> "ret"

(* -------------------------- remote responses --------------------------- *)
\* what execute() does: return a body, or raise HttpError
SheetResponses ==
    [err : {FALSE}, v : SheetLists] \cup { [err |-> TRUE, v |-> <<>>] }

SingleSheetResponses ==
    { [err |-> FALSE, v |-> << SheetA >>], [err |-> TRUE, v |-> <<>>] }

FetchResponses ==
    [err : {FALSE}, v : Fetches] \cup { [err |-> TRUE, v |-> <<>>] }

get_all_sheets(resp) == IF resp.err THEN <<>> ELSE resp.v

read_google_sheet(resp) == IF resp.err THEN <<>> ELSE resp.v

(* -------------------------------- state -------------------------------- *)
VARIABLES
    fs,             \* OUTPUT_DIR: file name -> contents
    pc,             \* "idle" (no process), or the next statement of process_sheet
    cycles,         \* calls of process_sheet so far, those of this run included
    deletes,        \* manual deletions so far
    outcome,        \* how the last invocation ended
    sheet_names,    \* main: sheet_names
    i_sheet,        \* main: position of the for loop in sheet_names
    current_data,   \* process_sheet: current_data
    previous_data,  \* process_sheet: previous_data
    new_data,       \* process_sheet: new_data
    changes_file,   \* save_changes: changes_file, <<>> before the call
    snap_read,      \* history: read_previous_data was called in this cycle
    fs0,            \* history: OUTPUT_DIR when this cycle began
    invoked,        \* history: sheets process_sheet was called for in this run
    failed,         \* history: loop positions whose fetch raised HttpError
    clean,          \* history: no invocation was stopped so far
    torn,           \* history: sheets with a cycle stopped between the two writes
    last_fetch,     \* history: rows of the last completed non-empty fetch, per sheet
    last_new,       \* history: rows of the last completed fetch with new rows
    changed,        \* history: completed cycles with new rows, per sheet
    last_num        \* history: number of the last change file written, per sheet

vars == << fs, pc, cycles, deletes, outcome, sheet_names, i_sheet, current_data,
           previous_data, new_data, changes_file, snap_read, fs0, invoked,
           failed, clean, torn, last_fetch, last_new, changed, last_num >>

locals == << current_data, previous_data, new_data, changes_file, snap_read >>

history == << last_fetch, last_new, changed >>

sheet_name == sheet_names[i_sheet]

EmptyDir == [p \in {} |-> <<>>]

Init ==
    /\ fs = EmptyDir
    /\ pc = "idle"
    /\ cycles = 0
    /\ deletes = 0
    /\ outcome = "none"
    /\ sheet_names = <<>>
    /\ i_sheet = 0
    /\ current_data = <<>>
    /\ previous_data = <<>>
    /\ new_data = <<>>
    /\ changes_file = <<>>
    /\ snap_read = FALSE
    /\ fs0 = EmptyDir
    /\ invoked = <<>>
    /\ failed = {}
    /\ clean = TRUE
    /\ torn = {}
    /\ last_fetch = [t \in SheetTitles |-> <<>>]
    /\ last_new = [t \in SheetTitles |-> <<>>]
    /\ changed = [t \in SheetTitles |-> 0]
    /\ last_num = [t \in SheetTitles |-> 0]

ResetLocals ==
    /\ current_data' = <<>>
    /\ previous_data' = <<>>
    /\ new_data' = <<>>
    /\ changes_file' = <<>>
    /\ snap_read' = FALSE

\* the history of completed cycles, written by the step that ends the body of
\* process_sheet (the one that sets pc to "ret")
Completes(cur, new) ==
    IF pc' = "ret"
    THEN /\ last_fetch' = IF cur # <<>>
                          THEN [last_fetch EXCEPT ![sheet_name] = cur]
                          ELSE last_fetch
         /\ last_new' = IF new # <<>>
                        THEN [last_new EXCEPT ![sheet_name] = cur]
                        ELSE last_new
         /\ changed' = IF new # <<>>
                       THEN [changed EXCEPT ![sheet_name] = @ + 1]
                       ELSE changed
    ELSE UNCHANGED history

(* ------------------------------- actions ------------------------------- *)
\* main() up to the first call of process_sheet, for the answers the
\* spreadsheet can give to get_all_sheets
MainOf(responses, max_cycles) ==
    /\ pc = "idle"
    /\ \E resp \in responses :
         /\ cycles + Len(get_all_sheets(resp)) <= max_cycles
         /\ sheet_names' = get_all_sheets(resp)
         /\ cycles' = cycles + Len(get_all_sheets(resp))
         /\ IF sheet_names' = <<>>
            THEN /\ pc' = "idle"
                 /\ outcome' = "ok"
                 /\ i_sheet' = 0
                 /\ invoked' = <<>>
                 /\ fs0' = EmptyDir
            ELSE /\ pc' = "fetch"
                 /\ outcome' = "running"
                 /\ i_sheet' = 1
                 /\ invoked' = << sheet_names'[1] >>
                 /\ fs0' = fs
    /\ failed' = {}
    /\ ResetLocals
    /\ UNCHANGED << fs, deletes, clean, torn, history, last_num >>

Main == MainOf(SheetResponses, MaxCycles)

\* main() on a spreadsheet whose only sheet is "A"
MainSingle == MainOf(SingleSheetResponses, MaxCyclesDel)

\* process_sheet: current_data = read_google_sheet(...); if not current_data: return
ReadGoogleSheet ==
    /\ pc = "fetch"
    /\ \E resp \in FetchResponses :
         /\ current_data' = read_google_sheet(resp)
         /\ failed' = IF resp.err THEN failed \cup {i_sheet} ELSE failed
    /\ pc' = IF current_data' = <<>> THEN "ret" ELSE "read"
    /\ Completes(current_data', new_data)
    /\ UNCHANGED << fs, cycles, deletes, outcome, sheet_names, i_sheet,
                    previous_data, new_data, changes_file, snap_read, fs0,
                    invoked, clean, torn, last_num >>

\* process_sheet: previous_data = ...; new_data = [...]; if new_data: ... else: ...
ReadPreviousData ==
    /\ pc = "read"
    /\ previous_data' = read_previous_data(fs, sheet_name)
    /\ new_data' = new_rows(current_data, previous_data')
    /\ snap_read' = TRUE
    /\ pc' = IF has_changes(new_data') THEN stmt_after("read") ELSE "ret"
    /\ Completes(current_data, new_data')
    /\ UNCHANGED << fs, cycles, deletes, outcome, sheet_names, i_sheet,
                    current_data, changes_file, fs0, invoked, failed, clean,
                    torn, last_num >>

WriteNewDataOnlyNew ==
    /\ pc = "write"
    /\ fs' = write_new_data(fs, sheet_name, new_data)
    /\ pc' = stmt_after("write")
    /\ Completes(current_data, new_data)
    /\ UNCHANGED << cycles, deletes, outcome, sheet_names, i_sheet, locals, fs0,
                    invoked, failed, clean, torn, last_num >>

\* process_sheet: write_new_data(sheet_name, current_data)
WriteNewData ==
    /\ pc = "write"
    /\ fs' = write_new_data(fs, sheet_name, current_data)
    /\ pc' = stmt_after("write")
    /\ Completes(current_data, new_data)
    /\ UNCHANGED << cycles, deletes, outcome, sheet_names, i_sheet, locals, fs0,
                    invoked, failed, clean, torn, last_num >>

\* process_sheet: save_changes(sheet_name, new_data)
SaveChanges ==
    /\ pc = "save"
    /\ changes_file' = changes_file_of(fs, sheet_name)
    /\ fs' = save_changes(fs, sheet_name, new_data)
    /\ last_num' = [last_num EXCEPT
                      ![sheet_name] = changes_count(fs, sheet_name) + 1]
    /\ pc' = stmt_after("save")
    /\ Completes(current_data, new_data)
    /\ UNCHANGED << cycles, deletes, outcome, sheet_names, i_sheet, current_data,
                    previous_data, new_data, snap_read, fs0, invoked, failed,
                    clean, torn >>

ReturnStopOnEmpty ==
    /\ pc = "ret"
    /\ IF i_sheet < Len(sheet_names) /\ current_data # <<>>
       THEN /\ pc' = "fetch"
            /\ i_sheet' = i_sheet + 1
            /\ invoked' = Append(invoked, sheet_names[i_sheet + 1])
            /\ outcome' = outcome
            /\ fs0' = fs
       ELSE /\ pc' = "idle"
            /\ outcome' = "ok"
            /\ fs0' = EmptyDir
            /\ UNCHANGED << i_sheet, invoked >>
    /\ ResetLocals
    /\ UNCHANGED << fs, cycles, deletes, sheet_names, failed, clean, torn,
                    history, last_num >>

\* process_sheet returns; main: the for loop calls it for the next sheet, or ends
Return ==
    /\ pc = "ret"
    /\ IF i_sheet < Len(sheet_names)
       THEN /\ pc' = "fetch"
            /\ i_sheet' = i_sheet + 1
            /\ invoked' = Append(invoked, sheet_names[i_sheet + 1])
            /\ outcome' = outcome
            /\ fs0' = fs
       ELSE /\ pc' = "idle"
            /\ outcome' = "ok"
            /\ fs0' = EmptyDir
            /\ UNCHANGED << i_sheet, invoked >>
    /\ ResetLocals
    /\ UNCHANGED << fs, cycles, deletes, sheet_names, failed, clean, torn,
                    history, last_num >>

\* the process stops at the statement pc names, which is not executed
Stop(how) ==
    /\ pc' = "idle"
    /\ outcome' = how
    /\ clean' = FALSE
    /\ torn' = IF pc = "save" THEN torn \cup {sheet_name} ELSE torn
    /\ fs0' = EmptyDir
    /\ ResetLocals
    /\ UNCHANGED << fs, cycles, deletes, sheet_names, i_sheet, invoked, failed,
                    history, last_num >>

\* open() or json.load() raises in read_previous_data, write_new_data or
\* save_changes: nothing catches it, and main() ends with the exception
Raise ==
    /\ pc \in {"read", "write", "save"}
    /\ Stop("raised")

\* the process is killed between two statements
Interrupt ==
    /\ pc # "idle"
    /\ Stop("killed")

\* the largest number a change file can carry within the bounds
MaxNumber == MaxCycles + MaxCyclesDel + 1

\* f is changes_<t>_<n>.json
IsChangeFile(f, t) == \E n \in 1..MaxNumber : f = changes_path(t, n)

\* someone removes a change file from OUTPUT_DIR between two runs
Delete ==
    /\ pc = "idle"
    /\ deletes < MaxDeletes
    /\ \E f \in DOMAIN fs :
         /\ \E t \in SheetTitles : IsChangeFile(f, t)
         /\ fs' = [p \in (DOMAIN fs) \ {f} |-> fs[p]]
         /\ last_num' = [t \in SheetTitles |->
                           IF IsChangeFile(f, t) THEN 0 ELSE last_num[t]]
    /\ deletes' = deletes + 1
    /\ UNCHANGED << pc, cycles, outcome, sheet_names, i_sheet, locals, fs0,
                    invoked, failed, clean, torn, history >>

Next ==
    \/ Main
    \/ ReadGoogleSheet
    \/ ReadPreviousData
    \/ WriteNewData
    \/ SaveChanges
    \/ Return
    \/ Raise
    \/ Interrupt

Spec == Init /\ [][Next]_vars

\* a spreadsheet with the one sheet "A", and manual deletions between runs
NextDel ==
    \/ MainSingle
    \/ ReadGoogleSheet
    \/ ReadPreviousData
    \/ WriteNewData
    \/ SaveChanges
    \/ Return
    \/ Raise
    \/ Interrupt
    \/ Delete

SpecDel == Init /\ [][NextDel]_vars

(* ------------------------- what is stored ------------------------------ *)
\* the rows of the stored snapshot of sheet t
Snapshot(t) == read_previous_data(fs, t)

HasSnapshot(t) == Exists(fs, latest_path(t))

\* the numbers of the change files of sheet t in a directory
NumbersIn(files, t) == { n \in 1..MaxNumber : Exists(files, changes_path(t, n)) }

Numbers(t) == NumbersIn(fs, t)

\* the rows of change file n of sheet t
Record(t, n) == json_load(fs[changes_path(t, n)])

Rows(data) == { data[i] : i \in 1..Len(data) }

(* ------------------------------- claims -------------------------------- *)
\* the positions of current whose row equals no row of previous
Kept(current, previous) ==
    { i \in 1..Len(current) : \A j \in 1..Len(previous) : previous[j] # current[i] }

\* C1: new_data is the sub-sequence of current_data, in order, of the rows
\* that equal no row of previous_data: the k-th kept position of current_data
\* gives the k-th row of new_data, so a row that occurs in previous_data at any
\* position is left out and an absent row appears once per occurrence.
C1_NewRowsAreAbsentRows ==
    snap_read =>
        LET keep == Kept(current_data, previous_data)
        IN  /\ previous_data = read_previous_data(fs0, sheet_name)
            /\ Len(new_data) = Cardinality(keep)
            /\ \A i \in keep :
                 new_data[Cardinality({ j \in keep : j <= i })] = current_data[i]

\* a snapshot of two different rows is fetched in the other order
C1_Witness ==
    /\ snap_read
    /\ Len(previous_data) = 2
    /\ previous_data[1] # previous_data[2]
    /\ current_data = << previous_data[2], previous_data[1] >>
    /\ new_data = <<>>

\* C2: save_changes writes a file no file of OUTPUT_DIR had the name of, and
\* leaves the contents of every file that existed before the call.
C2_NeverOverwrites ==
    [][ (pc = "save" /\ changes_file' # <<>>) =>
            /\ ~Exists(fs, changes_file')
            /\ \A f \in DOMAIN fs : Exists(fs', f) /\ fs'[f] = fs[f] ]_vars

\* C3: a change file written for a sheet carries a number greater than that of
\* the change file written for it before (no deletion in between) and greater
\* than the number of every change file of the sheet still in OUTPUT_DIR.
C3_NumbersIncrease ==
    [][ (pc = "save" /\ changes_file' # <<>>) =>
            /\ last_num[sheet_name] > 0 =>
                   last_num'[sheet_name] > last_num[sheet_name]
            /\ \A m \in Numbers(sheet_name) : last_num'[sheet_name] > m ]_vars

\* C4: with no deletion and no stopped run, between runs the change files of
\* every sheet are numbered 1..k, k the number of its cycles that found new
\* rows, and the count save_changes takes is that of the sheet's own files.
C4_NumberedFromOne ==
    clean =>
        /\ pc = "idle" => \A t \in SheetTitles : Numbers(t) = 1..changed[t]
        /\ pc = "save" =>
               changes_count(fs, sheet_name) = Cardinality(Numbers(sheet_name))

\* C5: when process_sheet returns having found new rows, the stored snapshot
\* of the sheet is current_data, row for row.
C5_SnapshotIsCurrent ==
    (pc = "ret" /\ new_data # <<>>) =>
        /\ HasSnapshot(sheet_name)
        /\ Snapshot(sheet_name) = current_data

\* the previous snapshot had a row the fetch no longer has
C5_Witness ==
    /\ pc = "ret"
    /\ new_data # <<>>
    /\ \E row \in Rows(previous_data) : row \notin Rows(current_data)
    /\ Snapshot(sheet_name) = current_data

\* C6 as stated: between runs, the snapshot of a sheet is the rows of the most
\* recent non-empty fetch whose cycle completed.
C6_SnapshotIsLastFetch ==
    (clean /\ pc = "idle") =>
        \A t \in SheetTitles :
            last_fetch[t] # <<>> => Snapshot(t) = last_fetch[t]

\* C6 amended: unless a cycle of the sheet was stopped between the two writes,
\* the snapshot of a sheet is the rows of the most recent completed fetch that
\* had a row absent from the snapshot of its time (no snapshot file before the
\* first such fetch), and every row of the most recent completed non-empty
\* fetch occurs in it.
C6_SnapshotIsLastFetchWithNewRows ==
    \A t \in SheetTitles :
        (t \notin torn /\ ~(pc = "save" /\ sheet_name = t)) =>
            /\ HasSnapshot(t) <=> last_new[t] # <<>>
            /\ Snapshot(t) = last_new[t]
            /\ Rows(last_fetch[t]) \subseteq Rows(Snapshot(t))

\* a completed fetch lost a row of the snapshot and the snapshot kept it
C6_Witness ==
    /\ pc = "idle"
    /\ clean
    /\ \E t \in SheetTitles :
         /\ last_fetch[t] # <<>>
         /\ last_fetch[t] # last_new[t]
         /\ Snapshot(t) = last_new[t]

\* C7: a cycle whose new_data is empty leaves OUTPUT_DIR as it was when the
\* cycle began, an empty fetch returns without reading the snapshot, and
\* OUTPUT_DIR differs from what it was only if some fetched row is absent from
\* the snapshot of the beginning of the cycle.
C7_NoNewRowsNoWrites ==
    /\ (pc = "ret" /\ current_data = <<>>) => ~snap_read
    /\ (pc = "ret" /\ new_data = <<>>) => fs = fs0
    /\ (pc # "idle" /\ fs # fs0) =>
           \E row \in Rows(current_data) :
               row \notin Rows(read_previous_data(fs0, sheet_name))

\* every fetched row is in the snapshot, which is not empty and differs
C7_Witness ==
    /\ pc = "ret"
    /\ snap_read
    /\ current_data # previous_data
    /\ new_data = <<>>
    /\ fs = fs0

\* C8 as stated: a run that ended by itself, normally or by a storage failure,
\* called process_sheet for every enumerated sheet, in order.
C8_EverySheetProcessed ==
    (pc = "idle" /\ outcome \in {"ok", "raised"}) => invoked = sheet_names

\* C8 amended: process_sheet is called for the enumerated sheets in order, and
\* a run that no exception ended called it for every one of them, whatever
\* fetch raised HttpError or returned no rows; a run an exception of a storage
\* operation ended stopped at the sheet it was processing.
C8_EverySheetProcessedUnlessRaised ==
    /\ invoked = SubSeq(sheet_names, 1, i_sheet)
    /\ (pc = "idle" /\ outcome = "ok") => invoked = sheet_names

\* the fetch of the first of two sheets raised HttpError, the run went on
C8_Witness ==
    /\ pc = "idle"
    /\ outcome = "ok"
    /\ Len(sheet_names) = 2
    /\ 1 \in failed
    /\ invoked = sheet_names

\* C9: once the change file of a cycle is written, the snapshot of the sheet
\* is the current_data of the cycle.
C9_SnapshotBeforeChanges ==
    changes_file # <<>> =>
        /\ HasSnapshot(sheet_name)
        /\ Snapshot(sheet_name) = current_data

\* a run was stopped between the two writes: the snapshot is there, no change
\* file is
C9_Witness ==
    /\ pc = "idle"
    /\ outcome = "killed"
    /\ sheet_name \in torn
    /\ HasSnapshot(sheet_name)
    /\ Numbers(sheet_name) = {}

\* every row of the snapshot of t is in a change file of t
Covered(t) ==
    \A row \in Rows(Snapshot(t)) :
        \E n \in Numbers(t) : row \in Rows(Record(t, n))

\* C10: with no deletion, every row of the snapshot of a sheet is in one of
\* its change files, except while its cycle is between the two writes and
\* unless one of its cycles was stopped there.
C10_SnapshotCovered ==
    \A t \in SheetTitles :
        (t \notin torn /\ ~(pc = "save" /\ sheet_name = t)) => Covered(t)

\* a snapshot whose rows come from two change files, after a stopped run
C10_Witness ==
    /\ pc = "idle"
    /\ ~clean
    /\ \E t \in SheetTitles :
         /\ t \notin torn
         /\ Cardinality(Numbers(t)) = 2
         /\ \A n \in Numbers(t) : Rows(Record(t, n)) # Rows(Snapshot(t))
         /\ Covered(t)

====
